---- MODULE Spec2Model ----
(***************************************************************************)
(* Pump Web Aggregator: one upstream WebSocket, many downstream clients.   *)
(*                                                                         *)
(* The repository holds four variants of server.js.  The model carries a   *)
(* variable `variant` that is fixed at start-up and selects which one is   *)
(* running:                                                                *)
(*   "main"  - src/server.js lines 1-265   (CommonJS, resubscribe on open) *)
(*   "esm"   - src/server.js lines 267-500 (ES module, heuristics)         *)
(*   "meta"  - src/unnamed/part_000        (mint metadata cache)           *)
(*   "basic" - src/unnamed/part_001        (first version)                 *)
(***************************************************************************)
EXTENDS Integers, Sequences, FiniteSets, TLC

\* ------------------------------------------------------------------ bounds
MaxEvents == 3      \* rows produced from inbound frames in one behaviour
MaxClients == 1     \* downstream handles that ever attach
MaxSocks == 2       \* upstream socket objects that exist at the same time

\* ------------------------------------------------------- program constants
CACHE_LIMIT == 2
TRADE_SUB_LIMIT == 2
MIN_SOL_CREATE_TO_TRACK == 1
RESUB_CHUNK == 50
MAX_CACHE == 2
ROW_BOOTSTRAP == 1
META_LIMIT == 2

Variants == {"main", "esm", "meta", "basic"}
CJS == {"main", "meta", "basic"}

NULL == 0
SockIds == 1..MaxSocks
Handles == 1..MaxClients

ABSENT == "<absent>"
NoSol == -1

VARIABLES
  variant,               \* which server.js is running
  started,               \* server.listen callback has run
  crashed,               \* an exception escaped an event handler
  upstream,              \* `upstream` / `pumpWS`: NULL or a socket id
  socks,                 \* readyState of every upstream socket object
  keepAlive,             \* the _keepAlive interval of every socket object
  upstreamConnected,     \* `upstreamConnected` / `pumpConnected`
  timers,                \* outstanding setTimeout(connectUpstream) timers
  downstreamClients,     \* `downstreamClients` / `wss.clients`, insertion order
  ws,                    \* readyState of every downstream handle
  broken,                \* open handles whose send() throws
  cachedRows,            \* rolling row cache
  subscribedTradeMints,  \* JS Set, in insertion order
  subscribedTradeQueue,  \* JS array
  mintMeta,              \* JS Map, in insertion order
  arrived,               \* history: every row produced, in arrival order
  inbox,                 \* history: envelopes delivered to each open handle
  outbox,                \* history: commands sent on each upstream socket
  skipped,               \* history: subscribers the broadcast of this step did not reach
  handled,               \* history: the frame the "message" handler took in this step
  lastEvt                \* history: the last event of the upstream connector

vars == <<variant, started, crashed, upstream, socks, keepAlive,
          upstreamConnected, timers, downstreamClients, ws, broken,
          cachedRows, subscribedTradeMints, subscribedTradeQueue, mintMeta,
          arrived, inbox, outbox, skipped, handled, lastEvt>>

upVars == <<upstream, socks, keepAlive, upstreamConnected, timers, outbox>>
downVars == <<downstreamClients, ws, broken, inbox>>
dataVars == <<cachedRows, subscribedTradeMints, subscribedTradeQueue, mintMeta, arrived>>

\* ----------------------------------------------------------------- helpers
Min(S) == CHOOSE x \in S : \A y \in S : x <= y

Range(seq) == {seq[i] : i \in 1..Len(seq)}

Has(seq, x) == \E i \in 1..Len(seq) : seq[i] = x

SeqDelete(seq, x) == SelectSeq(seq, LAMBDA y : y # x)

\* Array.prototype.slice(-n): the last n elements; slice(-0) is slice(0)
SliceLast(seq, n) ==
  IF n <= 0 \/ n >= Len(seq) THEN seq ELSE SubSeq(seq, Len(seq) - n + 1, Len(seq))

Truthy(v) == v # ABSENT /\ v # ""

Running == started /\ ~crashed

\* ------------------------------------------------------ inbound frames
\* A parsed message is a record of the keys the handlers probe; ABSENT (NoSol
\* for the numeric keys) stands for a key the payload does not carry.
NoMsg ==
  [txType |-> ABSENT, type |-> ABSENT, event |-> ABSENT, kind |-> ABSENT,
   side |-> ABSENT, direction |-> ABSENT, isBuy |-> ABSENT, isSell |-> ABSENT,
   error |-> ABSENT, mint |-> ABSENT, name |-> ABSENT, symbol |-> ABSENT,
   solAmount |-> NoSol, sol |-> NoSol]

CreateMsg(m, n, sy, amount) ==
  [NoMsg EXCEPT !.mint = m, !.name = n, !.symbol = sy, !.solAmount = amount]

TradeMsg(m, tx, amount) ==
  [NoMsg EXCEPT !.mint = m, !.txType = tx, !.side = tx, !.solAmount = amount]

\* A frame is the text on the wire: `parses` says whether JSON.parse accepts it
Frame(ok, m) == [parses |-> ok, msg |-> m]

Frames ==
  { Frame(FALSE, NoMsg),
    Frame(TRUE, CreateMsg("M1", "Foo", "FOO", 5)),
    Frame(TRUE, CreateMsg("M2", "Bar", "BAR", 5)),
    Frame(TRUE, CreateMsg("M3", "Baz", "BAZ", 5)),
    Frame(TRUE, TradeMsg("M1", "buy", 2)) }

\* String.prototype.toLowerCase on the strings the frames carry
Lower(s) ==
  CASE s = "Buy" -> "buy"
    [] s = "BUY" -> "buy"
    [] s = "Sell" -> "sell"
    [] s = "SELL" -> "sell"
    [] s = "Create" -> "create"
    [] s = "CREATE" -> "create"
    [] s = "Trade" -> "trade"
    [] s = "TRADE" -> "trade"
    [] OTHER -> s

\* String.prototype.trim
Trim(s) == IF s = " " THEN "" ELSE s

\* x || "" on a string key
OrEmpty(v) == IF Truthy(v) THEN v ELSE ""

\* pick(obj, keys, fallback): first key whose value is neither null nor ""
RECURSIVE pick(_, _, _)
pick(msg, keys, fallback) ==
  IF keys = <<>> THEN fallback
  ELSE IF Truthy(msg[Head(keys)]) THEN msg[Head(keys)]
  ELSE pick(msg, Tail(keys), fallback)

\* safeNum(pick(msg, ["solAmount","sol","amountSol"], 0), 0)   (main)
\* pickSol(msg)                                                (meta)
\* Number(msg.solAmount ?? msg.sol ?? 0)                       (basic)
pickSol(msg) ==
  IF msg.solAmount # NoSol THEN msg.solAmount
  ELSE IF msg.sol # NoSol THEN msg.sol
  ELSE 0

\* Number(msg.sol ?? msg.amountSOL ?? ... ?? 0) || 0           (esm)
esmSol(msg) == IF msg.sol # NoSol THEN msg.sol ELSE 0

\* isTradeMessage(msg) of main, and the inline isTrade of meta and basic
isTradeMessage(v, msg) ==
  CASE v = "main" ->
         \/ msg.txType # ABSENT
         \/ (msg.type # ABSENT /\ Lower(msg.type) = "trade")
         \/ msg.side # ABSENT
         \/ msg.direction # ABSENT
    [] v = "meta" ->
         msg.txType # ABSENT \/ msg.type = "trade" \/ msg.event = "trade"
    [] OTHER ->
         msg.txType # ABSENT \/ msg.type = "trade"

\* the isCreate / isTrade heuristics of the ES module
esmIsCreate(msg) ==
  \/ msg.type = "create"
  \/ msg.event = "create"
  \/ msg.kind = "create"
  \/ msg.txType = "create"
  \/ /\ Truthy(msg.name) /\ Truthy(msg.symbol) /\ Truthy(msg.mint)
     /\ ~Truthy(msg.side) /\ msg.isBuy # "true" /\ msg.isSell # "true"

esmIsTrade(msg) ==
  \/ msg.type = "trade"
  \/ msg.event = "trade"
  \/ msg.kind = "trade"
  \/ msg.txType = "trade"
  \/ msg.side = "buy"
  \/ msg.side = "sell"
  \/ msg.isBuy # ABSENT
  \/ msg.isSell # ABSENT

\* ---------------------------------------------------------- metadata cache
\* mintMeta is a JS Map: a sequence of entries in insertion order; set() on
\* a key that is present replaces the value in place.
MetaHas(meta, mint) == \E i \in 1..Len(meta) : meta[i].mint = mint

MetaIdx(meta, mint) == CHOOSE i \in 1..Len(meta) : meta[i].mint = mint

\* a set() that re-inserts the key, so that a write moves the entry to the end
MetaSetPromotes(meta, mint, n, sy) ==
  LET e == [mint |-> mint, name |-> n, symbol |-> sy] IN
  Append(SelectSeq(meta, LAMBDA x : x.mint # mint), e)

MetaSet(meta, mint, n, sy) ==
  LET e == [mint |-> mint, name |-> n, symbol |-> sy] IN
  IF MetaHas(meta, mint) THEN [meta EXCEPT ![MetaIdx(meta, mint)] = e]
  ELSE Append(meta, e)

\* a lookup that never finds the entry
getMetaMiss(meta, mint) == [mint |-> mint, name |-> "", symbol |-> ""]

\* getMeta(mint): mintMeta.get(mint) || { name: "", symbol: "" }
getMeta(meta, mint) ==
  IF MetaHas(meta, mint) THEN meta[MetaIdx(meta, mint)]
  ELSE [mint |-> mint, name |-> "", symbol |-> ""]

\* rememberMeta that stores the incoming fields without merging the old ones
rememberMetaOverwrite(meta, mint, n, sy) ==
  IF ~Truthy(mint) THEN meta
  ELSE LET nn == IF Truthy(n) THEN Trim(n) ELSE ""
           ns == IF Truthy(sy) THEN Trim(sy) ELSE ""
       IN IF nn # "" \/ ns # "" THEN MetaSet(meta, mint, nn, ns) ELSE meta

\* rememberMeta(mint, name, symbol)
rememberMeta(meta, mint, n, sy) ==
  IF ~Truthy(mint) THEN meta
  ELSE LET prev == getMeta(meta, mint)
           nn == IF Truthy(n) /\ Trim(n) # "" THEN Trim(n) ELSE prev.name
           ns == IF Truthy(sy) /\ Trim(sy) # "" THEN Trim(sy) ELSE prev.symbol
       IN IF nn # "" \/ ns # "" THEN MetaSet(meta, mint, nn, ns) ELSE meta

\* ------------------------------------------------------------- normalisers
\* Rows keep the fields the claims speak of; `t` (Date.now()) is the arrival
\* tick, `trader` and `raw` are left out.
Row(k, t, m, sd, amount, n, sy) ==
  [kind |-> k, t |-> t, mint |-> m, side |-> sd, sol |-> amount, name |-> n, symbol |-> sy]

normCreate(v, msg, t) ==
  Row("create", t, OrEmpty(msg.mint), ABSENT, pickSol(msg),
      OrEmpty(msg.name), OrEmpty(msg.symbol))

\* side of a trade row: main looks for the substrings "buy"/"sell" in the
\* lower-cased first present key, meta and basic lower-case txType || side
tradeSide(v, msg) ==
  IF v = "main"
  THEN LET raw == Lower(pick(msg, <<"txType", "side", "direction">>, "")) IN
       IF raw = "buy" THEN "buy" ELSE IF raw = "sell" THEN "sell" ELSE ""
  ELSE Lower(IF Truthy(msg.txType) THEN msg.txType ELSE OrEmpty(msg.side))

normTrade(v, msg, t, meta) ==
  LET m == OrEmpty(msg.mint)
      cached == getMeta(meta, m)
      n == IF v = "meta" /\ ~Truthy(msg.name) THEN cached.name ELSE OrEmpty(msg.name)
      sy == IF v = "meta" /\ ~Truthy(msg.symbol) THEN cached.symbol ELSE OrEmpty(msg.symbol)
  IN Row("trade", t, m, tradeSide(v, msg), pickSol(msg), n, sy)

\* the ES module builds its rows inline
esmCreateRow(msg, t) ==
  Row("create", t, OrEmpty(msg.mint), "null", esmSol(msg),
      IF Truthy(msg.name) THEN msg.name ELSE "-",
      IF Truthy(msg.symbol) THEN msg.symbol ELSE "-")

esmTradeRow(msg, t, meta) ==
  LET m == OrEmpty(msg.mint)
      s0 == IF Truthy(msg.side) THEN msg.side
            ELSE IF msg.isBuy = "true" THEN "buy"
            ELSE IF msg.isSell = "true" THEN "sell"
            ELSE ""
      sd == IF s0 = "buy" \/ s0 = "sell" THEN s0 ELSE "buy"
      known == Truthy(m) /\ MetaHas(meta, m)
      n == IF Truthy(msg.name) THEN msg.name
           ELSE IF known /\ getMeta(meta, m).name # "" THEN getMeta(meta, m).name
           ELSE "-"
      sy == IF Truthy(msg.symbol) THEN msg.symbol
            ELSE IF known /\ getMeta(meta, m).symbol # "" THEN getMeta(meta, m).symbol
            ELSE "-"
  IN Row("trade", t, m, sd, esmSol(msg), n, sy)


\* ------------------------------------------------------ rolling row cache
CacheCap(v) == IF v = "esm" THEN MAX_CACHE ELSE CACHE_LIMIT

\* pushCache with the comparison off by one (>= instead of >)
pushCacheOffByOne(rows, row, cap) ==
  LET r == Append(rows, row) IN IF Len(r) >= cap THEN Tail(r) ELSE r

\* pushCache with unshift instead of push: the new row goes in front
pushCachePrepend(rows, row, cap) ==
  LET r == <<row>> \o rows IN IF Len(r) > cap THEN Tail(r) ELSE r

\* pushCache with pop instead of shift: over the limit the new row goes
pushCachePop(rows, row, cap) ==
  LET r == Append(rows, row) IN IF Len(r) > cap THEN SubSeq(r, 1, Len(r) - 1) ELSE r

\* pushCache(row) / pushRow(row)
pushCache(rows, row, cap) ==
  LET r == Append(rows, row) IN IF Len(r) > cap THEN Tail(r) ELSE r

\* a snapshot cut with slice(0, -1): the newest row is left out
snapshotDropsNewest(v, rows) == IF rows = <<>> THEN rows ELSE SubSeq(rows, 1, Len(rows) - 1)

\* cachedRows.slice(-CACHE_LIMIT) / cachedRows.slice(-ROW_BOOTSTRAP)
snapshot(v, rows) == SliceLast(rows, IF v = "esm" THEN ROW_BOOTSTRAP ELSE CACHE_LIMIT)

Envelope(ty, rows) == [type |-> ty, rows |-> rows]

\* ---------------------------------------------------- subscription tracker
\* the cap enforced with pop() instead of shift(): the newest mint goes
RECURSIVE enforceCapPop(_)
enforceCapPop(tr) ==
  IF Len(tr.queue) > TRADE_SUB_LIMIT
  THEN enforceCapPop([mints |-> SeqDelete(tr.mints, tr.queue[Len(tr.queue)]),
                      queue |-> SubSeq(tr.queue, 1, Len(tr.queue) - 1), sent |-> tr.sent])
  ELSE tr

\* the cap enforced with >= instead of >: a mint goes while there is room
RECURSIVE enforceCapEager(_)
enforceCapEager(tr) ==
  IF Len(tr.queue) >= TRADE_SUB_LIMIT /\ Len(tr.queue) > 1
  THEN enforceCapEager([mints |-> SeqDelete(tr.mints, Head(tr.queue)),
                        queue |-> Tail(tr.queue), sent |-> tr.sent])
  ELSE tr

\* while (subscribedTradeQueue.length > TRADE_SUB_LIMIT) { shift; delete }
RECURSIVE enforceCap(_)
enforceCap(tr) ==
  IF Len(tr.queue) > TRADE_SUB_LIMIT
  THEN enforceCap([mints |-> SeqDelete(tr.mints, Head(tr.queue)),
                   queue |-> Tail(tr.queue), sent |-> tr.sent])
  ELSE tr

\* maybeSubscribeTrade without its sendUpstream call
maybeSubscribeTradeNoSend(mints, queue, mint) ==
  IF ~Truthy(mint) \/ Has(mints, mint)
  THEN [mints |-> mints, queue |-> queue, sent |-> FALSE]
  ELSE enforceCap([mints |-> Append(mints, mint),
                   queue |-> Append(queue, mint), sent |-> FALSE])

\* maybeSubscribeTrade without the subscribedTradeMints.has(mint) return
maybeSubscribeTradeNoDedupe(mints, queue, mint) ==
  IF ~Truthy(mint)
  THEN [mints |-> mints, queue |-> queue, sent |-> FALSE]
  ELSE enforceCap([mints |-> IF Has(mints, mint) THEN mints ELSE Append(mints, mint),
                   queue |-> Append(queue, mint), sent |-> TRUE])

\* maybeSubscribeTrade(mint): the tracker afterwards, and whether the
\* subscribeTokenTrade command for the mint is handed to the socket
maybeSubscribeTrade(mints, queue, mint) ==
  IF ~Truthy(mint) \/ Has(mints, mint)
  THEN [mints |-> mints, queue |-> queue, sent |-> FALSE]
  ELSE enforceCap([mints |-> Append(mints, mint),
                   queue |-> Append(queue, mint), sent |-> TRUE])

\* --------------------------------------------------------- upstream socket
Cmd(method, keys) == [method |-> method, keys |-> keys]

\* sendUpstream(payload), and the guarded upstream.send of meta and basic:
\* the payload reaches the wire only if `upstream` is an open socket
sendUpstream(ob, sk, u, cmd) ==
  IF u # NULL /\ sk[u] = "OPEN" THEN [ob EXCEPT ![u] = Append(@, cmd)] ELSE ob

\* mints.slice(i, i + 50) for i = 0, 50, ...
RECURSIVE Chunks(_, _)
Chunks(seq, n) ==
  IF seq = <<>> THEN <<>>
  ELSE IF Len(seq) <= n THEN <<seq>>
  ELSE <<SubSeq(seq, 1, n)>> \o Chunks(SubSeq(seq, n + 1, Len(seq)), n)

RECURSIVE sendAll(_, _, _, _)
sendAll(ob, sk, u, cmds) ==
  IF cmds = <<>> THEN ob
  ELSE sendAll(sendUpstream(ob, sk, u, Head(cmds)), sk, u, Tail(cmds))

\* the commands the "open" handler sends, in order
openCommands(v, mints) ==
  CASE v = "main" ->
         <<Cmd("subscribeNewToken", <<>>)>> \o
         [i \in 1..Len(Chunks(mints, RESUB_CHUNK)) |->
            Cmd("subscribeTokenTrade", Chunks(mints, RESUB_CHUNK)[i])]
    [] v = "esm" -> <<>>
    [] OTHER -> <<Cmd("subscribeNewToken", <<>>)>>

\* a socket object that can be handed out by `new WebSocket`: one that does
\* not exist yet, or a closed one nothing refers to any more
FreeSocks == {s \in SockIds : socks[s] \in {"NONE", "CLOSED"} /\ keepAlive[s] # "running"}

Live(s) == socks[s] \in {"CONNECTING", "OPEN"}

\* readyState CLOSING: "CLOSING" for a socket that was open (frames can still
\* arrive on it), "FAILING" for one that gives up before it ever opened
Closing(st) == IF st = "CONNECTING" THEN "FAILING" ELSE "CLOSING"

\* connectUpstream()
connectUpstream ==
  IF upstream # NULL /\ Live(upstream)
  THEN UNCHANGED <<upstream, socks, keepAlive, outbox, lastEvt>>
  ELSE /\ FreeSocks # {}
       /\ LET s == Min(FreeSocks) IN
            /\ upstream' = s
            /\ socks' = [socks EXCEPT ![s] = "CONNECTING"]
            /\ keepAlive' = [keepAlive EXCEPT ![s] = "none"]
            /\ outbox' = [outbox EXCEPT ![s] = <<>>]
       /\ lastEvt' = "connect"

\* server.listen(PORT, () => connectUpstream())
Startup ==
  /\ ~started
  /\ started' = TRUE
  /\ connectUpstream
  /\ UNCHANGED <<variant, crashed, upstreamConnected, timers, downVars, dataVars>>
  /\ skipped' = {}
  /\ handled' = <<>>

\* a setTimeout(connectUpstream, RECONNECT_MS) timer fires
ReconnectTimerFire ==
  /\ Running
  /\ timers > 0
  /\ timers' = timers - 1
  /\ connectUpstream
  /\ UNCHANGED <<variant, started, crashed, upstreamConnected, downVars, dataVars>>
  /\ skipped' = {}
  /\ handled' = <<>>

\* upstream.on("open")
UpstreamOpen(s) ==
  /\ Running
  /\ socks[s] = "CONNECTING"
  /\ LET sk == [socks EXCEPT ![s] = "OPEN"] IN
       /\ socks' = sk
       /\ outbox' = sendAll(outbox, sk, upstream, openCommands(variant, subscribedTradeMints))
  /\ upstreamConnected' = TRUE
  /\ IF variant = "esm"
     THEN UNCHANGED <<keepAlive, crashed>>
     ELSE IF upstream = NULL
     THEN crashed' = TRUE /\ UNCHANGED keepAlive      \* upstream._keepAlive of null
     ELSE /\ keepAlive' = IF keepAlive[upstream] = "none"
                          THEN [keepAlive EXCEPT ![upstream] = "running"]
                          ELSE keepAlive
          /\ UNCHANGED crashed
  /\ lastEvt' = "open"
  /\ UNCHANGED <<variant, started, upstream, timers, downVars, dataVars>>
  /\ skipped' = {}
  /\ handled' = <<>>

\* an "error" handler that also schedules a reconnect
UpstreamErrorSchedules(s) ==
  /\ Running
  /\ Live(s)
  /\ \E st \in {socks[s], Closing(socks[s])} : socks' = [socks EXCEPT ![s] = st]
  /\ upstreamConnected' = FALSE
  /\ timers' = timers + 1
  /\ lastEvt' = "error"
  /\ UNCHANGED <<variant, started, crashed, upstream, keepAlive, outbox, downVars, dataVars>>
  /\ skipped' = {}
  /\ handled' = <<>>

\* upstream.on("error"): the socket either stays as it is or starts closing
UpstreamError(s) ==
  /\ Running
  /\ Live(s)
  /\ \E st \in {socks[s], Closing(socks[s])} :
       LET sk == [socks EXCEPT ![s] = st] IN
       socks' = IF variant = "esm" /\ upstream # NULL /\ sk[upstream] \in {"CONNECTING", "OPEN"}
                THEN [sk EXCEPT ![upstream] = Closing(@)]     \* pumpWS.close()
                ELSE sk
  /\ upstreamConnected' = FALSE
  /\ lastEvt' = "error"
  /\ UNCHANGED <<variant, started, crashed, upstream, keepAlive, timers, outbox,
                 downVars, dataVars>>
  /\ skipped' = {}
  /\ handled' = <<>>

\* a close handler that leaves the interval of the socket running
clearKeepAliveSkipped(ka, u) == ka

\* if (upstream && upstream._keepAlive) clearInterval(upstream._keepAlive)
clearKeepAlive(ka, u) ==
  IF u # NULL /\ ka[u] = "running" THEN [ka EXCEPT ![u] = "cleared"] ELSE ka

\* upstream.on("close")
UpstreamClose(s) ==
  /\ Running
  /\ socks[s] \in {"CONNECTING", "OPEN", "CLOSING", "FAILING"}
  /\ socks' = [socks EXCEPT ![s] = "CLOSED"]
  /\ upstreamConnected' = FALSE
  /\ IF variant = "esm"
     THEN UNCHANGED <<upstream, keepAlive>>
     ELSE /\ keepAlive' = clearKeepAlive(keepAlive, upstream)
          /\ upstream' = NULL
  /\ timers' = timers + 1
  /\ lastEvt' = "close"
  /\ UNCHANGED <<variant, started, crashed, outbox, downVars, dataVars>>
  /\ skipped' = {}
  /\ handled' = <<>>


\* -------------------------------------------------------------- broadcast
\* position of the first subscriber whose send() throws, 0 if none does
firstThrow(clients) ==
  LET bad == {i \in 1..Len(clients) : ws[clients[i]] = "OPEN" /\ clients[i] \in broken}
  IN IF bad = {} THEN 0 ELSE Min(bad)

\* broadcast(obj): the handles the envelope is delivered to.  The CommonJS
\* variants wrap each send in try/catch; the ES module does not, so its loop
\* ends at the first send that throws.
broadcast(v, clients) ==
  {clients[i] : i \in {j \in 1..Len(clients) :
      /\ ws[clients[j]] = "OPEN"
      /\ clients[j] \notin broken
      /\ (v \in CJS \/ firstThrow(clients) = 0 \/ j < firstThrow(clients))}}

\* a broadcast that deletes the subscribers it could not send to
clientsAfterBroadcastPrunes(v, clients) ==
  SelectSeq(clients, LAMBDA h : ws[h] = "OPEN" /\ h \notin broken)

\* downstreamClients after broadcast(obj): the loop only reads the set
clientsAfterBroadcast(v, clients) == clients

\* whether broadcast(obj) lets an exception escape
broadcastThrows(v, clients) == v = "esm" /\ firstThrow(clients) # 0

deliver(inb, to, env) ==
  [h \in Handles |-> IF h \in to THEN Append(inb[h], env) ELSE inb[h]]

\* --------------------------------------------------------- message handler
\* What the "message" handler does with a parsed message: whether a row is
\* produced, the row, the metadata cache and the tracker afterwards.
process(v, msg, t, meta, mints, queue) ==
  LET same == [mints |-> mints, queue |-> queue, sent |-> FALSE] IN
  CASE v = "esm" ->
         IF esmIsCreate(msg)
         THEN [emit |-> TRUE, row |-> esmCreateRow(msg, t),
               meta |-> IF Truthy(msg.mint)
                        THEN MetaSet(meta, msg.mint, esmCreateRow(msg, t).name,
                                     esmCreateRow(msg, t).symbol)
                        ELSE meta,
               track |-> same]
         ELSE IF esmIsTrade(msg)
         THEN [emit |-> TRUE, row |-> esmTradeRow(msg, t, meta), meta |-> meta, track |-> same]
         ELSE [emit |-> FALSE, row |-> esmTradeRow(msg, t, meta), meta |-> meta, track |-> same]
    [] v = "main" /\ Truthy(msg.error) ->
         [emit |-> FALSE, row |-> normCreate(v, msg, t), meta |-> meta, track |-> same]
    [] OTHER ->
         IF isTradeMessage(v, msg)
         THEN LET row == normTrade(v, msg, t, meta) IN
              [emit |-> TRUE, row |-> row,
               meta |-> IF v = "meta" THEN rememberMeta(meta, row.mint, row.name, row.symbol)
                        ELSE meta,
               track |-> same]
         ELSE LET row == normCreate(v, msg, t) IN
              [emit |-> TRUE, row |-> row,
               meta |-> IF v = "meta" THEN rememberMeta(meta, row.mint, row.name, row.symbol)
                        ELSE meta,
               track |-> IF row.sol >= MIN_SOL_CREATE_TO_TRACK
                         THEN maybeSubscribeTrade(mints, queue, row.mint)
                         ELSE same]

\* a handler that takes whatever JSON.parse leaves in msg
jsonParsesAnything(f) == TRUE

\* try { msg = JSON.parse(data.toString()) } catch { return }
jsonParses(f) == f.parses

\* upstream.on("message") / pumpWS.on("message")
UpstreamMessage(s, f) ==
  /\ Running
  /\ socks[s] \in {"OPEN", "CLOSING"}
  /\ Len(arrived) < MaxEvents
  /\ IF ~jsonParses(f)
     THEN /\ UNCHANGED <<dataVars, inbox, outbox, crashed, downstreamClients>>
          /\ skipped' = {}
     ELSE LET r == process(variant, f.msg, Len(arrived) + 1, mintMeta,
                           subscribedTradeMints, subscribedTradeQueue)
          IN /\ mintMeta' = r.meta
             /\ subscribedTradeMints' = r.track.mints
             /\ subscribedTradeQueue' = r.track.queue
             /\ outbox' = IF r.track.sent
                          THEN sendUpstream(outbox, socks, upstream,
                                            Cmd("subscribeTokenTrade", <<r.row.mint>>))
                          ELSE outbox
             /\ IF r.emit
                THEN /\ cachedRows' = pushCache(cachedRows, r.row, CacheCap(variant))
                     /\ arrived' = Append(arrived, r.row)
                     /\ inbox' = deliver(inbox, broadcast(variant, downstreamClients),
                                         Envelope("row", <<r.row>>))
                     /\ crashed' = broadcastThrows(variant, downstreamClients)
                     /\ downstreamClients' = clientsAfterBroadcast(variant, downstreamClients)
                     /\ skipped' = Range(downstreamClients) \
                                      broadcast(variant, downstreamClients)
                ELSE /\ UNCHANGED <<cachedRows, arrived, inbox, crashed, downstreamClients>>
                     /\ skipped' = {}
  /\ handled' = <<f>>
  /\ UNCHANGED <<variant, started, upstream, socks, keepAlive, upstreamConnected, timers,
                 ws, broken, lastEvt>>

\* ------------------------------------------------------ downstream handles
\* wss.on("connection"): `ok` says whether the snapshot send goes through
WsConnection(h, ok) ==
  /\ Running
  /\ ws[h] = "NONE"
  /\ \A g \in Handles : g < h => ws[g] # "NONE"
  /\ ws' = [ws EXCEPT ![h] = "OPEN"]
  /\ downstreamClients' = Append(downstreamClients, h)
  /\ IF ok
     THEN /\ inbox' = [inbox EXCEPT ![h] = <<Envelope("batch", snapshot(variant, cachedRows))>>]
          /\ UNCHANGED <<broken, crashed>>
     ELSE /\ broken' = broken \cup {h}
          /\ crashed' = (variant = "esm")          \* ws.send outside try/catch
          /\ UNCHANGED inbox
  /\ UNCHANGED <<variant, started, upVars, dataVars, lastEvt>>
  /\ skipped' = {}
  /\ handled' = <<>>

\* the connection under an open handle breaks: from now on send() throws
WsBreak(h) ==
  /\ Running
  /\ ws[h] = "OPEN"
  /\ h \notin broken
  /\ broken' = broken \cup {h}
  /\ inbox' = [inbox EXCEPT ![h] = <<>>]
  /\ UNCHANGED <<variant, started, crashed, upVars, dataVars, downstreamClients, ws,
                 lastEvt>>
  /\ skipped' = {}
  /\ handled' = <<>>

\* the closing handshake starts: readyState leaves OPEN before "close" is emitted
WsClosing(h) ==
  /\ Running
  /\ ws[h] = "OPEN"
  /\ ws' = [ws EXCEPT ![h] = "CLOSING"]
  /\ broken' = broken \ {h}
  /\ inbox' = [inbox EXCEPT ![h] = <<>>]
  /\ UNCHANGED <<variant, started, crashed, upVars, dataVars, downstreamClients,
                 lastEvt>>
  /\ skipped' = {}
  /\ handled' = <<>>

\* ws.on("error", ...)
WsError(h) ==
  /\ Running
  /\ ws[h] = "OPEN"
  /\ ws' = [ws EXCEPT ![h] = "CLOSING"]
  /\ broken' = broken \ {h}
  /\ inbox' = [inbox EXCEPT ![h] = <<>>]
  /\ downstreamClients' = IF variant \in CJS THEN SeqDelete(downstreamClients, h)
                          ELSE downstreamClients
  /\ UNCHANGED <<variant, started, crashed, upVars, dataVars, lastEvt>>
  /\ skipped' = {}
  /\ handled' = <<>>

\* ws.on("close", ...); the ES module's wss.clients drops the handle itself
WsClose(h) ==
  /\ Running
  /\ ws[h] \in {"OPEN", "CLOSING"}
  /\ ws' = [ws EXCEPT ![h] = "CLOSED"]
  /\ broken' = broken \ {h}
  /\ inbox' = [inbox EXCEPT ![h] = <<>>]
  /\ downstreamClients' = SeqDelete(downstreamClients, h)
  /\ UNCHANGED <<variant, started, crashed, upVars, dataVars, lastEvt>>
  /\ skipped' = {}
  /\ handled' = <<>>

\* ------------------------------------------------------------ specification
Init ==
  /\ variant \in Variants
  /\ started = FALSE
  /\ crashed = FALSE
  /\ upstream = NULL
  /\ socks = [s \in SockIds |-> "NONE"]
  /\ keepAlive = [s \in SockIds |-> "none"]
  /\ upstreamConnected = FALSE
  /\ timers = 0
  /\ downstreamClients = <<>>
  /\ ws = [h \in Handles |-> "NONE"]
  /\ broken = {}
  /\ cachedRows = <<>>
  /\ subscribedTradeMints = <<>>
  /\ subscribedTradeQueue = <<>>
  /\ mintMeta = <<>>
  /\ arrived = <<>>
  /\ inbox = [h \in Handles |-> <<>>]
  /\ outbox = [s \in SockIds |-> <<>>]
  /\ skipped = {}
  /\ handled = <<>>
  /\ lastEvt = "init"

Next ==
  \/ Startup
  \/ ReconnectTimerFire
  \/ \E s \in SockIds : UpstreamOpen(s)
  \/ \E s \in SockIds : UpstreamError(s)
  \/ \E s \in SockIds : UpstreamClose(s)
  \/ \E s \in SockIds, f \in Frames : UpstreamMessage(s, f)
  \/ \E h \in Handles, ok \in BOOLEAN : WsConnection(h, ok)
  \/ \E h \in Handles : WsBreak(h)
  \/ \E h \in Handles : WsClosing(h)
  \/ \E h \in Handles : WsError(h)
  \/ \E h \in Handles : WsClose(h)

Spec == Init /\ [][Next]_vars

\* The event loop runs a reconnect timer once its delay has passed, and a
\* socket that has started closing emits "close".
FairSpec ==
  /\ Spec
  /\ WF_vars(ReconnectTimerFire)
  /\ WF_vars(\E s \in SockIds : socks[s] \in {"CLOSING", "FAILING"} /\ UpstreamClose(s))


\* ------------------------------------------------- the message pipeline
\* Payload shapes the classifiers and the tracking gate tell apart
PipeFrames ==
  { Frame(TRUE, CreateMsg("M1", "Foo", "FOO", 5)),
    Frame(TRUE, TradeMsg("M1", "buy", 2)),
    \* a trade that carries a name
    Frame(TRUE, [TradeMsg("M1", "sell", 2) EXCEPT !.name = "Zed"]),
    \* { error: "bad" }: the reply to a command upstream rejects
    Frame(TRUE, [NoMsg EXCEPT !.error = "bad"]),
    \* a create that names itself in txType
    Frame(TRUE, [CreateMsg("M2", "Bar", "BAR", 5) EXCEPT !.txType = "create"]),
    \* no discriminator, no side, no flag, no name
    Frame(TRUE, [NoMsg EXCEPT !.mint = "M2", !.solAmount = 5]),
    \* a create without a mint
    Frame(TRUE, CreateMsg(ABSENT, "Foo", "FOO", 5)),
    \* a create below MIN_SOL_CREATE_TO_TRACK
    Frame(TRUE, CreateMsg("M2", "Bar", "BAR", 0)),
    \* txType says buy, the flag says sell
    Frame(TRUE, [NoMsg EXCEPT !.mint = "M1", !.txType = "Buy", !.isSell = "true",
                              !.solAmount = 2]) }

\* The message handler on one connection, fed every payload shape: start-up,
\* open, error (after which the socket may be closing), attach and message.
PipeNext ==
  \/ Startup
  \/ \E s \in SockIds : UpstreamOpen(s)
  \/ \E s \in SockIds : UpstreamError(s)
  \/ \E s \in SockIds, f \in PipeFrames : UpstreamMessage(s, f)
  \/ \E h \in Handles, ok \in BOOLEAN : WsConnection(h, ok)

PipeSpec == Init /\ [][PipeNext]_vars


\* ================================================================== claims
Last(seq) == seq[Len(seq)]

LastN(seq, n) == IF Len(seq) <= n THEN seq ELSE SubSeq(seq, Len(seq) - n + 1, Len(seq))

RECURSIVE Flatten(_)
Flatten(seqs) == IF seqs = <<>> THEN <<>> ELSE Head(seqs) \o Flatten(Tail(seqs))

NoDup(seq) == \A i, j \in 1..Len(seq) : seq[i] = seq[j] => i = j

LiveSocks == {s \in SockIds : Live(s)}

\* a step in which a row is produced, cached and published
Publishes == arrived' # arrived

C2_CloseOrErrorLeadsToConnect ==
  (lastEvt \in {"close", "error"}) ~> (\E s \in SockIds : socks[s] = "CONNECTING")

\* a step in which an upstream socket emits "close"
Closes == \E s \in SockIds : socks[s] # "CLOSED" /\ socks'[s] = "CLOSED"

\* C3: at most one reconnect timer is outstanding in every reachable state;
\* a close event schedules exactly one timer, and no other step (an error
\* event in particular) schedules any.
C3_OneReconnectTimer ==
  /\ [](timers <= 1)
  /\ [][Closes => timers' = timers + 1]_vars
  /\ [][timers' > timers => Closes]_vars
  /\ [][lastEvt' = "error" => timers' <= timers]_vars

\* C3 witness: a close event has run and its one timer is outstanding
C3_Witness == lastEvt = "close" /\ timers = 1

\* C4: the rolling cache is exactly the last C rows that arrived, in arrival
\* order, C being the capacity; its length never exceeds C.
C4_CacheIsLastRows ==
  /\ Len(cachedRows) <= CacheCap(variant)
  /\ cachedRows = LastN(arrived, CacheCap(variant))

\* C4 witness: more rows than the capacity have been pushed
C4_Witness ==
  /\ Len(arrived) > CacheCap(variant)
  /\ Len(cachedRows) = CacheCap(variant)
  /\ cachedRows[1] = arrived[Len(arrived) - CacheCap(variant) + 1]

\* C5: the tracker never holds more than TRADE_SUB_LIMIT mints, and its
\* queue changes only as a strict FIFO: a create row that qualifies and whose
\* mint is not tracked appends the mint, the head (the oldest mint) leaves
\* when the limit would be exceeded, and every other step leaves the queue
\* as it is.
C5_TrackerIsBoundedFifo ==
  /\ [](/\ Len(subscribedTradeQueue) <= TRADE_SUB_LIMIT
        /\ Len(subscribedTradeMints) <= TRADE_SUB_LIMIT)
  /\ [][LET tracks == /\ Publishes
                      /\ variant \in CJS
                      /\ Last(arrived').kind = "create"
                      /\ Last(arrived').sol >= MIN_SOL_CREATE_TO_TRACK
                      /\ Truthy(Last(arrived').mint)
                      /\ ~Has(subscribedTradeQueue, Last(arrived').mint)
            q == Append(subscribedTradeQueue, Last(arrived').mint)
        IN IF tracks
           THEN subscribedTradeQueue' =
                  IF Len(q) > TRADE_SUB_LIMIT THEN Tail(q) ELSE q
           ELSE subscribedTradeQueue' = subscribedTradeQueue]_vars

\* C5 witness: M1 was tracked first and is the one that was evicted
C5_Witness ==
  /\ Len(arrived) = 3
  /\ arrived[1].kind = "create" /\ arrived[1].mint = "M1"
  /\ subscribedTradeQueue = <<"M2", "M3">>
  /\ subscribedTradeMints = <<"M2", "M3">>

\* C6 (as claimed): the metadata cache holds at most META_LIMIT entries.
C6_MetaBounded == Len(mintMeta) <= META_LIMIT

\* what a handle has been sent: the rows of its envelopes, in order
Received(h) == Flatten([i \in 1..Len(inbox[h]) |-> inbox[h][i].rows])

Healthy(h) == ws[h] = "OPEN" /\ h \notin broken

\* C7: while the process runs, a handle that is open and whose sends go
\* through has been sent one batch envelope first and row envelopes after
\* it, and the rows of all of them are exactly the rows that arrived from
\* the first row of the snapshot on, once each and in arrival order.
C7_SnapshotThenEveryRowOnce ==
  ~crashed =>
    \A h \in Handles : Healthy(h) =>
      /\ inbox[h] # <<>>
      /\ inbox[h][1].type = "batch"
      /\ \A i \in 2..Len(inbox[h]) : inbox[h][i].type = "row" /\ Len(inbox[h][i].rows) = 1
      /\ Received(h) =
           SubSeq(arrived,
                  IF inbox[h][1].rows = <<>> THEN 1 ELSE inbox[h][1].rows[1].t,
                  Len(arrived))

\* C7 witness: a handle attached when rows were cached and has received a
\* row envelope since
C7_Witness ==
  \E h \in Handles :
    /\ Healthy(h)
    /\ Len(inbox[h]) >= 2
    /\ inbox[h][1].rows # <<>>
    /\ inbox[h][2].type = "row"

C9_SendFailureDoesNotAbort ==
  [][Publishes =>
       /\ ~crashed'
       /\ \A h \in Range(downstreamClients) : Healthy(h) =>
            inbox'[h] = Append(inbox[h], Envelope("row", <<Last(arrived')>>))]_vars

\* the commands an "open" must send: subscribeNewToken first and once, then
\* subscribeTokenTrade commands of at most RESUB_CHUNK keys each that name
\* every tracked mint exactly once
GoodResubscribe(sent, mints) ==
  /\ Len(sent) >= 1
  /\ sent[1] = Cmd("subscribeNewToken", <<>>)
  /\ \A i \in 2..Len(sent) :
       sent[i].method = "subscribeTokenTrade" /\ Len(sent[i].keys) <= RESUB_CHUNK
  /\ LET keys == Flatten([i \in 1..(Len(sent) - 1) |-> sent[i + 1].keys]) IN
       NoDup(keys) /\ Range(keys) = Range(mints)

\* C10 (as claimed): on every transition of an upstream socket into Open the
\* variants that subscribe at all (every one but the ES module, whose
\* handler is a stub) send subscribeNewToken and then resubscribe every
\* tracked mint.
C10_OpenResubscribesAll ==
  [][\A s \in SockIds :
       (variant \in CJS /\ socks[s] = "CONNECTING" /\ socks'[s] = "OPEN")
         => GoodResubscribe(outbox'[s], subscribedTradeMints)]_vars

\* the upstream connection is not one a command can be sent on
UpstreamNotOpen == upstream = NULL \/ socks[upstream] # "OPEN"

\* a step of the message handler that starts tracking a mint
Tracks == handled' # <<>> /\ subscribedTradeQueue' # subscribedTradeQueue

\* C11 (as claimed): a subscribe command issued while the upstream is not
\* Open is dropped without an error and the mint stays tracked, and when a
\* connection reaches Open a subscribeTokenTrade command naming every
\* tracked mint is sent on it.
C11_DroppedSubscribeIsResentOnOpen ==
  /\ [][(Tracks /\ UpstreamNotOpen) =>
          /\ outbox' = outbox
          /\ ~crashed'
          /\ Has(subscribedTradeMints', Last(subscribedTradeQueue'))]_vars
  /\ [][\A s \in SockIds :
          (variant \in CJS /\ socks[s] = "CONNECTING" /\ socks'[s] = "OPEN") =>
            \A m \in Range(subscribedTradeMints) :
              \E i \in 1..Len(outbox'[s]) :
                /\ outbox'[s][i].method = "subscribeTokenTrade"
                /\ Has(outbox'[s][i].keys, m)]_vars

\* C12: a frame that JSON.parse rejects produces no row and leaves the row
\* cache, the metadata cache, the tracker, the subscriber set, the commands
\* sent upstream and everything delivered downstream as they were.
C12_MalformedFrameChangesNothing ==
  [][(handled' # <<>> /\ ~handled'[1].parses) =>
       UNCHANGED <<arrived, cachedRows, mintMeta, subscribedTradeMints,
                   subscribedTradeQueue, downstreamClients, outbox, inbox, crashed>>]_vars

\* C12 witness: a malformed frame has just been taken while rows were
\* cached, a mint was tracked and an open subscriber was attached
C12_Witness ==
  /\ handled = <<Frame(FALSE, NoMsg)>>
  /\ cachedRows # <<>>
  /\ subscribedTradeQueue # <<>>
  /\ \E h \in Range(downstreamClients) : Healthy(h)

\* a step of the message handler on a frame that parsed
TakesParsed == handled' # <<>> /\ handled'[1].parses

\* C13 (as claimed): every frame that parses yields exactly one row, pushed
\* once into the row cache and published once: one row envelope carrying it
\* to every subscriber that is open and whose send goes through.
C13_EveryParsedMessageIsCachedAndPublished ==
  [][TakesParsed =>
       /\ Len(arrived') = Len(arrived) + 1
       /\ cachedRows' = LastN(Append(cachedRows, Last(arrived')), CacheCap(variant))
       /\ \A h \in Range(downstreamClients) : Healthy(h) =>
            inbox'[h] = Append(inbox[h], Envelope("row", <<Last(arrived')>>))]_vars

\* the discriminator a payload carries explicitly (txType, else type),
\* lower-cased, if it is one of create, buy, sell; "" otherwise
Discriminator(msg) ==
  LET d == IF msg.txType # ABSENT THEN Lower(msg.txType)
           ELSE IF msg.type # ABSENT THEN Lower(msg.type)
           ELSE ""
  IN IF d \in {"create", "buy", "sell"} THEN d ELSE ""

\* the kind of the spec (create, buy, sell, unknown) a row stands for
KindOf(row) ==
  IF row.kind = "create" THEN "create"
  ELSE IF row.side \in {"buy", "sell"} THEN row.side
  ELSE "unknown"

\* C14 (as claimed): a frame with an explicit discriminator of create, buy
\* or sell (in any letter case) yields a row of that kind, whatever its
\* side, direction, isBuy and isSell say.
C14_ExplicitDiscriminatorWins ==
  [][(TakesParsed /\ ~Truthy(handled'[1].msg.error)
        /\ Discriminator(handled'[1].msg) # "") =>
       /\ Len(arrived') = Len(arrived) + 1
       /\ KindOf(Last(arrived')) = Discriminator(handled'[1].msg)]_vars

\* a payload with no discriminator, no side or direction and no true flag
NoSignal(msg) ==
  /\ msg.txType = ABSENT /\ msg.type = ABSENT /\ msg.event = ABSENT /\ msg.kind = ABSENT
  /\ msg.side = ABSENT /\ msg.direction = ABSENT
  /\ msg.isBuy # "true" /\ msg.isSell # "true"

\* C15 (as claimed): a parsed frame without any signal is classified as a
\* create and processed as one: a create row is produced, its mint is
\* offered to the tracker, and the row is cached and published.
C15_NoSignalDefaultsToCreate ==
  [][(TakesParsed /\ NoSignal(handled'[1].msg)) =>
       /\ Len(arrived') = Len(arrived) + 1
       /\ Last(arrived').kind = "create"
       /\ (variant \in CJS /\ Truthy(Last(arrived').mint)
             /\ Last(arrived').sol >= MIN_SOL_CREATE_TO_TRACK)
            => Has(subscribedTradeMints', Last(arrived').mint)
       /\ Last(cachedRows') = Last(arrived')
       /\ \A h \in Range(downstreamClients) : Healthy(h) =>
            inbox'[h] = Append(inbox[h], Envelope("row", <<Last(arrived')>>))]_vars

\* a step of the message handler that produces a create row
ProducesCreate ==
  TakesParsed /\ Len(arrived') = Len(arrived) + 1 /\ Last(arrived').kind = "create"

\* a create row that passes the gate of the tracker: a mint, not tracked yet,
\* and a SOL amount of at least the threshold
Qualifies(row) ==
  /\ Truthy(row.mint)
  /\ ~Has(subscribedTradeMints, row.mint)
  /\ row.sol >= MIN_SOL_CREATE_TO_TRACK

\* C16: in the variants that track, a create row that passes the gate leaves
\* its mint tracked as the newest entry of the queue, and exactly one
\* subscribeTokenTrade naming that mint is issued: it is appended to what was
\* sent on the upstream socket if that socket is open, and dropped otherwise.
C16_QualifyingCreateIsTracked ==
  [][(ProducesCreate /\ variant \in CJS /\ Qualifies(Last(arrived'))) =>
       /\ Last(subscribedTradeQueue') = Last(arrived').mint
       /\ Last(subscribedTradeMints') = Last(arrived').mint
       /\ Len(SelectSeq(subscribedTradeQueue', LAMBDA m : m = Last(arrived').mint)) = 1
       /\ outbox' = IF UpstreamNotOpen THEN outbox
                    ELSE [outbox EXCEPT ![upstream] =
                            Append(@, Cmd("subscribeTokenTrade", <<Last(arrived').mint>>))]]_vars

\* C16 witness: M1 is tracked, the create for M2 has just been taken on the
\* open socket and its command is the last one sent
C16_Witness ==
  /\ handled # <<>>
  /\ subscribedTradeQueue = <<"M1", "M2">>
  /\ upstream # NULL /\ socks[upstream] = "OPEN"
  /\ Last(outbox[upstream]) = Cmd("subscribeTokenTrade", <<"M2">>)

\* C17: a create row that does not pass the gate (no mint, a mint that is
\* tracked already, or a SOL amount below the threshold) leaves the tracked
\* set and its queue as they were and sends nothing upstream.
C17_TrackingNoOp ==
  [][(ProducesCreate /\ ~Qualifies(Last(arrived'))) =>
       UNCHANGED <<subscribedTradeMints, subscribedTradeQueue, outbox>>]_vars

\* C17 witness: after M1 was tracked on the open socket, a create without a
\* mint and a create for M2 below the threshold have been taken, and only
\* M1 is tracked and subscribed
C17_Witness ==
  /\ variant \in CJS
  /\ Len(arrived) = 3
  /\ arrived[1].kind = "create" /\ arrived[1].mint = "M1"
  /\ arrived[2].kind = "create" /\ arrived[2].mint = ""
  /\ arrived[3].kind = "create" /\ arrived[3].mint = "M2"
  /\ arrived[3].sol < MIN_SOL_CREATE_TO_TRACK
  /\ subscribedTradeQueue = <<"M1">>
  /\ upstream # NULL /\ socks[upstream] = "OPEN"
  /\ Last(outbox[upstream]) = Cmd("subscribeTokenTrade", <<"M1">>)

\* arguments rememberMeta is applied to: no mint, a stored and a new mint;
\* an empty, a blank and a non-empty name; an empty and a non-empty symbol
MetaMints == {"", "M1", "M4"}
MetaNames == {"", " ", "Qux"}
MetaSymbols == {"", "QUX"}

\* no entry of `before` has lost its key, its non-empty name or its
\* non-empty symbol in `after`
NothingErased(before, after) ==
  \A i \in 1..Len(before) :
    /\ MetaHas(after, before[i].mint)
    /\ before[i].name # "" => getMeta(after, before[i].mint).name # ""
    /\ before[i].symbol # "" => getMeta(after, before[i].mint).symbol # ""

\* C18: on every store the metadata variant can reach and for every
\* (mint, name, symbol), rememberMeta applied twice gives the store that
\* applying it once gives, and no stored non-empty name or symbol is
\* replaced by an empty one.
C18_UpsertIdempotentNeverErases ==
  variant = "meta" =>
    \A m \in MetaMints, n \in MetaNames, sy \in MetaSymbols :
      LET once == rememberMeta(mintMeta, m, n, sy) IN
        /\ rememberMeta(once, m, n, sy) = once
        /\ NothingErased(mintMeta, once)

\* C18 witness: the entry of M1 was stored by its create and written again
\* by a trade that carries neither name nor symbol
C18_Witness ==
  /\ variant = "meta"
  /\ Len(arrived) >= 2
  /\ arrived[1].kind = "create" /\ arrived[1].mint = "M1"
  /\ arrived[2].kind = "trade" /\ arrived[2].mint = "M1"
  /\ handled # <<>> /\ ~Truthy(handled[1].msg.name)
  /\ getMeta(mintMeta, "M1") = [mint |-> "M1", name |-> "Foo", symbol |-> "FOO"]

\* a step of the message handler that produces a trade row from a payload
\* that carries neither name nor symbol
ProducesBareTrade ==
  /\ TakesParsed
  /\ Len(arrived') = Len(arrived) + 1
  /\ Last(arrived').kind = "trade"
  /\ ~Truthy(handled'[1].msg.name)
  /\ ~Truthy(handled'[1].msg.symbol)

RowsOf(h) == Flatten([i \in 1..Len(inbox[h]) |->
                        IF inbox[h][i].type = "row" THEN inbox[h][i].rows ELSE <<>>])

\* every element of seq is the row that arrived at its tick, and the ticks
\* grow along seq: seq is an order-preserving subsequence of `arrived`
InArrivalOrder(seq) ==
  /\ \A i \in 1..Len(seq) : seq[i].t \in 1..Len(arrived) /\ seq[i] = arrived[seq[i].t]
  /\ \A i \in 1..(Len(seq) - 1) : seq[i].t < seq[i + 1].t

\* C20: the row cache is ordered by arrival, and the rows of the row
\* envelopes delivered to any one handle are an order-preserving subsequence
\* of the rows in the order they arrived.
C20_ArrivalOrderPreserved ==
  /\ InArrivalOrder(cachedRows)
  /\ \A h \in Handles : InArrivalOrder(RowsOf(h))

\* C20 witness: a handle has been sent two row envelopes, and two rows are cached
C20_Witness ==
  /\ Len(cachedRows) >= 2
  /\ \E h \in Handles : Healthy(h) /\ Len(RowsOf(h)) >= 2

\* the mints of the tracked set that the step takes out of it
Untracked == Range(subscribedTradeMints) \ Range(subscribedTradeMints')

\* C21: the tracked set and its queue change only in a step that produces a
\* create row, so trades, malformed frames, attach and detach, and upstream
\* open, close, error and reconnect leave them as they are; a mint leaves
\* the tracked set only as the oldest of a full queue that takes a new mint;
\* and no step takes an entry out of the metadata cache.
C21_RemovedOnlyByEviction ==
  /\ [][(subscribedTradeMints' # subscribedTradeMints
            \/ subscribedTradeQueue' # subscribedTradeQueue) => ProducesCreate]_vars
  /\ [][\A m \in Untracked :
          /\ Len(subscribedTradeQueue) = TRADE_SUB_LIMIT
          /\ m = Head(subscribedTradeQueue)
          /\ Len(subscribedTradeQueue') = TRADE_SUB_LIMIT
          /\ ~Has(subscribedTradeMints, Last(subscribedTradeQueue'))]_vars
  /\ [][\A i \in 1..Len(mintMeta) : MetaHas(mintMeta', mintMeta[i].mint)]_vars

\* a trade, a detached handle and an upstream close have all happened and
\* the mint tracked before them is still tracked
C21_Witness ==
  /\ lastEvt = "close"
  /\ subscribedTradeQueue = <<"M1">>
  /\ Len(arrived) >= 2
  /\ Last(arrived).kind = "trade"
  /\ \E h \in Handles : ws[h] = "CLOSED"

\* the sockets whose keepalive interval is running
Pinging == {s \in SockIds : keepAlive[s] = "running"}

\* C23: at most one keepalive interval is running in every reachable state;
\* a running interval belongs to the socket `upstream` refers to, which has
\* opened and has not emitted close, so none runs while the connector is
\* disconnected; and in the variants that ping, a socket that is open has
\* its interval running.
C23_OneKeepAliveWhileConnected ==
  /\ Cardinality(Pinging) <= 1
  /\ \A s \in Pinging : upstream = s /\ socks[s] \in {"OPEN", "CLOSING"}
  /\ (upstream = NULL \/ socks[upstream] \in {"NONE", "CLOSED"}) => Pinging = {}
  /\ (variant \in CJS /\ ~crashed) => \A s \in SockIds : socks[s] = "OPEN" => s \in Pinging

\* a connection has opened, pinged and closed: its interval is cancelled
\* and the connector is disconnected
C23_Witness ==
  /\ lastEvt = "close"
  /\ upstream = NULL
  /\ \E s \in SockIds : socks[s] = "CLOSED" /\ keepAlive[s] = "cleared"

\* C24: in every reachable state the queue of the tracker holds no mint
\* twice and holds exactly the mints of subscribedTradeMints, so the size of
\* the set equals the length of the queue.
C24_SetAndQueueAgree ==
  /\ NoDup(subscribedTradeQueue)
  /\ NoDup(subscribedTradeMints)
  /\ Range(subscribedTradeQueue) = Range(subscribedTradeMints)
  /\ Len(subscribedTradeMints) = Len(subscribedTradeQueue)

\* the create of a mint has arrived twice and another mint after it: the
\* tracker holds each of the two mints once
C24_Witness ==
  /\ Len(arrived) = 3
  /\ arrived[1].kind = "create" /\ arrived[1].mint = "M1"
  /\ arrived[2].kind = "create" /\ arrived[2].mint = "M1"
  /\ subscribedTradeQueue = <<"M1", "M2">>
  /\ subscribedTradeMints = <<"M1", "M2">>

\* a step of the message handler that produces a buy or a sell row
ProducesTrade ==
  /\ TakesParsed
  /\ Len(arrived') = Len(arrived) + 1
  /\ Last(arrived').kind = "trade"
  /\ Last(arrived').side \in {"buy", "sell"}

\* C22 (as claimed): processing a trade event leaves the contents of the
\* metadata cache as they were.
C22_TradeOnlyReadsMeta == [][ProducesTrade => mintMeta' = mintMeta]_vars

\* C22 (amended): a trade whose payload carries no name and no symbol leaves
\* the metadata cache as it was, entry for entry and in the same order; the
\* cache changes only in a step that produces a create row or a trade row
\* from a payload that carries a name or a symbol.
C22_BareTradeOnlyReadsMeta ==
  /\ [][ProducesBareTrade => mintMeta' = mintMeta]_vars
  /\ [][mintMeta' # mintMeta =>
          \/ ProducesCreate
          \/ /\ TakesParsed
             /\ Last(arrived').kind = "trade"
             /\ Truthy(handled'[1].msg.name) \/ Truthy(handled'[1].msg.symbol)]_vars

\* a trade without name and symbol has just been processed for a mint that
\* has an entry in a cache of two entries
C22_Witness ==
  /\ variant = "meta"
  /\ handled # <<>>
  /\ Last(arrived).kind = "trade"
  /\ ~Truthy(handled[1].msg.name) /\ ~Truthy(handled[1].msg.symbol)
  /\ Len(mintMeta) = 2
  /\ mintMeta[1].mint = Last(arrived).mint

\* a step in which handle h attaches and its snapshot send goes through
Attaches(h) == ws[h] = "NONE" /\ ws'[h] = "OPEN" /\ inbox'[h] # <<>>

\* in a step that publishes a row, the row is the newest entry of the row
\* cache afterwards and every envelope sent in the step carries that entry
PushedThenSent ==
  Publishes =>
    /\ CacheCap(variant) >= 1 => (cachedRows' # <<>> /\ Last(cachedRows') = Last(arrived'))
    /\ \A h \in Handles :
         inbox'[h] # inbox[h] =>
           /\ inbox'[h] = Append(inbox[h], Envelope("row", <<Last(arrived')>>))
           /\ Last(inbox'[h]).rows = <<Last(cachedRows')>>

\* C25 (as claimed): a row is in the row cache, as its newest entry, when it
\* is sent to a subscriber, and a handle that attaches later is sent every
\* row the cache still holds.
C25_SentRowIsInLaterSnapshots ==
  /\ [][PushedThenSent]_vars
  /\ [][\A h \in Handles : Attaches(h) => inbox'[h][1].rows = cachedRows]_vars

\* the number of rows a snapshot takes from the end of the row cache
SnapshotSize == IF variant = "esm" THEN ROW_BOOTSTRAP ELSE CACHE_LIMIT

\* C25 (amended): a row is in the row cache, as its newest entry, when it is
\* sent to a subscriber, and a handle that attaches later is sent the newest
\* rows of the cache up to the snapshot size: the whole cache in the main
\* server, the last ROW_BOOTSTRAP rows in the ES module.
C25_SentRowIsInBoundedSnapshots ==
  /\ [][PushedThenSent]_vars
  /\ [][\A h \in Handles :
          Attaches(h) => /\ Len(inbox'[h]) = 1
                         /\ inbox'[h][1].type = "batch"
                         /\ inbox'[h][1].rows = LastN(cachedRows, SnapshotSize)]_vars

\* more rows than the cache holds have been published, and the handle that
\* attached after them was sent a snapshot that ends with the newest one
C25_Witness ==
  /\ Len(arrived) > CacheCap(variant)
  /\ \E h \in Handles :
       /\ Healthy(h)
       /\ Len(inbox[h]) = 1
       /\ inbox[h][1].type = "batch"
       /\ inbox[h][1].rows # <<>>
       /\ Last(inbox[h][1].rows) = Last(cachedRows)
       /\ Last(cachedRows) = Last(arrived)


====
